---- MODULE Spec2Model ----
(***************************************************************************)
(* A model of giffs.py: the two FUSE personalities GIFFS (forward: the     *)
(* backing file is FILE_HEADER ++ content, the view is content) and        *)
(* GIFFSReverse (reverse: the backing file is content, the view is         *)
(* FILE_HEADER ++ content).                                                *)
(*                                                                         *)
(* The backing filesystem is a map from paths to nodes, the process's      *)
(* descriptor table a map from handles to (node, cursor, access mode).     *)
(* Handlers without a lock are one atomic action each.  read and write,    *)
(* which run "with self.rwlock", are modelled step by step per dispatcher  *)
(* thread: dispatch, lock acquisition, os.lseek, os.read / os.write, and   *)
(* the exit of the with block.                                             *)
(*                                                                         *)
(* Spec      the reference deployment, FUSE(..., nothreads=True): one      *)
(*           request in flight at a time, a healthy backing store.         *)
(* ConcSpec  concurrent dispatch of read and write on one mount instance   *)
(*           by several threads, with backing-store failures.              *)
(* FairConc  ConcSpec with the fairness needed for progress.               *)
(***************************************************************************)
EXTENDS Integers, Sequences, FiniteSets, TLC

VARIABLES
    mode,     \* "forward" (GIFFS) or "reverse" (GIFFSReverse), chosen at mount
    nodes,    \* backing filesystem: path -> node
    fdtab,    \* descriptor table: handle -> [open, path, pos, flags]
    rwlock,   \* self.rwlock: Free or the thread holding it
    pc,       \* per thread: position inside read / write
    call,     \* per thread: the arguments and locals of the call in progress
    ret,      \* the response to the most recent request (NoRet while in flight)
    chain,    \* history: the create-write-read / truncate-read sequence so far
    seeker,   \* history: per handle, the thread whose lseek last set the cursor
    failed    \* history: some read or write has failed after taking the lock

vars == <<mode, nodes, fdtab, rwlock, pc, call, ret, chain, seeker, failed>>

(***************************************************************************)
(* Constants of the program                                                *)
(***************************************************************************)

\* base64.b64decode("R0lGODlhAQABAIAAAAUEBAAAACwAAAAAAQABAAACAkQBADs=")
FILE_HEADER ==
    << 71, 73, 70, 56, 57, 97, 1, 0, 1, 0, 128, 0, 0, 5, 4, 4, 0, 0, 0, 44,
       0, 0, 0, 0, 1, 0, 1, 0, 0, 2, 2, 68, 1, 0, 59 >>

\* len(FILE_HEADER)
L == Len(FILE_HEADER)

(***************************************************************************)
(* Bounds of the model                                                     *)
(***************************************************************************)

\* Longest content view of a file: writes end, and truncates cut, at or
\* before this view offset; a reverse backing file holds at most this much.
MaxView == 2

\* Bytes a caller writes, and bytes of a reverse backing file.
Byte == {88, 89}

Paths == {"/", "f", "s"}
FilePaths == {"f"}
LinkPaths == {"s"}
LinkTexts == {"f", "/"}
FDs == {3}
Threads == {1, 2}
MainThread == 1
Free == 0

(***************************************************************************)
(* Byte sequences                                                          *)
(***************************************************************************)

Min(a, b) == IF a <= b THEN a ELSE b
Max(a, b) == IF a >= b THEN a ELSE b

Zeros(n) == [i \in 1..Max(n, 0) |-> 0]

\* Python's s[a:b] for 0 <= a
Slice(s, a, b) ==
    LET hi == Min(b, Len(s))
    IN  IF a >= hi THEN << >> ELSE SubSeq(s, a + 1, hi)

IsPrefix(p, s) == Len(p) <= Len(s) /\ Slice(s, 0, Len(p)) = p

SeqsUpTo(S, n) == UNION { [1..k -> S] : k \in 0..n }

(***************************************************************************)
(* The backing store: what the os module does                              *)
(***************************************************************************)

NoNode == [kind |-> "none", data |-> << >>, text |-> "", lsize |-> 0]
RegNode(d) == [kind |-> "reg", data |-> d, text |-> "", lsize |-> 0]
DirNode == [kind |-> "dir", data |-> << >>, text |-> "", lsize |-> 4096]
\* a symbolic link's size is the length of its text; both texts are one character
LnkNode(t) == [kind |-> "lnk", data |-> << >>, text |-> t, lsize |-> 1]

\* the node a path names once a final symbolic link is followed
Resolve(fs, p) == IF fs[p].kind = "lnk" THEN fs[p].text ELSE p

\* os.lstat: the node itself, a symbolic link not followed
Lstat(fs, p) ==
    [st_mode  |-> fs[p].kind,
     st_nlink |-> IF fs[p].kind = "dir" THEN 2 ELSE 1,
     st_size  |-> IF fs[p].kind = "reg" THEN Len(fs[p].data) ELSE fs[p].lsize]

\* os.path.isfile: stat, which follows symbolic links
IsFile(fs, p) == fs[Resolve(fs, p)].kind = "reg"

\* the bytes os.read returns at cursor pos
PRead(d, pos, size) == Slice(d, pos, pos + size)

\* the file after os.write of bytes at cursor pos (a gap reads as zeros)
PWrite(d, pos, bytes) ==
    IF bytes = << >> THEN d
    ELSE Slice(d, 0, pos) \o Zeros(pos - Len(d)) \o bytes
         \o Slice(d, pos + Len(bytes), Len(d))

\* the file after truncate(n)
Resize(d, n) == Slice(d, 0, n) \o Zeros(n - Len(d))

ClosedFd == [open |-> FALSE, path |-> "", pos |-> 0, flags |-> ""]
FreeFds == { h \in FDs : ~fdtab[h].open }
\* os.open returns the lowest free descriptor
LowestFree == CHOOSE h \in FreeFds : \A g \in FreeFds : h <= g

(***************************************************************************)
(* Requests, responses and history                                         *)
(***************************************************************************)

NoStat == [st_mode |-> "", st_nlink |-> 0, st_size |-> 0]

NoRet ==
    [op |-> "none", err |-> "", path |-> "", fh |-> 0, offset |-> 0,
     size |-> 0, data |-> << >>, n |-> 0, st |-> NoStat]

NoCall ==
    [op |-> "none", fh |-> 0, offset |-> 0, size |-> 0, data |-> << >>,
     head |-> << >>, err |-> "", out |-> << >>, n |-> 0]

NoChain == [kind |-> "none", step |-> 0, fh |-> 0, path |-> "", content |-> << >>]

\* nothreads=True: the dispatcher hands over a request when none is in flight
Idle == \A t \in Threads : pc[t] = "idle"

(***************************************************************************)
(* GIFFS: the forward personality                                          *)
(***************************************************************************)

\* create: os.open(path, O_RDWR | O_CREAT | O_TRUNC, mode), then
\* os.write(fh, FILE_HEADER) at the fresh descriptor's cursor
GIFFS_create(p) ==
    /\ mode = "forward"
    /\ Idle
    /\ FreeFds # {}
    /\ LET q == Resolve(nodes, p)
           h == LowestFree
       IN  IF nodes[q].kind = "dir"
           THEN /\ ret' = [NoRet EXCEPT !.op = "create", !.err = "EISDIR", !.path = p]
                /\ chain' = NoChain
                /\ UNCHANGED <<nodes, fdtab, seeker>>
           ELSE /\ nodes' = [nodes EXCEPT ![q] = RegNode(PWrite(<< >>, 0, FILE_HEADER))]
                /\ fdtab' = [fdtab EXCEPT ![h] =
                       [open |-> TRUE, path |-> q, pos |-> Len(FILE_HEADER), flags |-> "rw"]]
                /\ seeker' = [seeker EXCEPT ![h] = Free]
                /\ ret' = [NoRet EXCEPT !.op = "create", !.path = p, !.fh = h]
                /\ chain' = [NoChain EXCEPT !.kind = "roundtrip", !.step = 1,
                                            !.fh = h, !.path = q]
    /\ UNCHANGED <<mode, rwlock, pc, call, failed>>

\* mknod = os.mknod, called with a regular-file mode
GIFFS_mknod(p) ==
    /\ mode = "forward"
    /\ Idle
    /\ IF nodes[p].kind # "none"
       THEN /\ ret' = [NoRet EXCEPT !.op = "mknod", !.err = "EEXIST", !.path = p]
            /\ UNCHANGED nodes
       ELSE /\ nodes' = [nodes EXCEPT ![p] = RegNode(<< >>)]
            /\ ret' = [NoRet EXCEPT !.op = "mknod", !.path = p]
    /\ chain' = NoChain
    /\ UNCHANGED <<mode, fdtab, rwlock, pc, call, seeker, failed>>

\* symlink(target, source) = os.symlink(source, target)
GIFFS_symlink(target, source) ==
    /\ mode = "forward"
    /\ Idle
    /\ IF nodes[target].kind # "none"
       THEN /\ ret' = [NoRet EXCEPT !.op = "symlink", !.err = "EEXIST", !.path = target]
            /\ UNCHANGED nodes
       ELSE /\ nodes' = [nodes EXCEPT ![target] = LnkNode(source)]
            /\ ret' = [NoRet EXCEPT !.op = "symlink", !.path = target]
    /\ chain' = NoChain
    /\ UNCHANGED <<mode, fdtab, rwlock, pc, call, seeker, failed>>

\* truncate: builtin open(path, 'r+'), then f.truncate(length + len(FILE_HEADER))
GIFFS_truncate(p, length) ==
    /\ mode = "forward"
    /\ Idle
    /\ LET q == Resolve(nodes, p)
       IN  IF nodes[q].kind # "reg"
           THEN /\ ret' = [NoRet EXCEPT !.op = "truncate", !.path = p, !.size = length,
                               !.err = IF nodes[q].kind = "dir" THEN "EISDIR" ELSE "ENOENT"]
                /\ chain' = NoChain
                /\ UNCHANGED nodes
           ELSE /\ nodes' = [nodes EXCEPT ![q].data = Resize(@, length + Len(FILE_HEADER))]
                /\ ret' = [NoRet EXCEPT !.op = "truncate", !.path = p, !.size = length]
                /\ chain' = IF length = 0
                            THEN [NoChain EXCEPT !.kind = "truncate", !.step = 1, !.path = q]
                            ELSE NoChain
    /\ UNCHANGED <<mode, fdtab, rwlock, pc, call, seeker, failed>>

\* a getattr that reports the backing size as it is
GIFFS_getattr_unadjusted(fs, p) == Lstat(fs, p)

\* getattr: os.lstat, then st_size - len(FILE_HEADER) if os.path.isfile(path)
GIFFS_getattr(fs, p) ==
    LET st == Lstat(fs, p)
    IN  IF IsFile(fs, p)
        THEN [st EXCEPT !.st_size = st.st_size - Len(FILE_HEADER)]
        ELSE st

\* read: the cursor os.lseek(fh, offset + len(FILE_HEADER), 0) sets
GIFFS_read_seek(offset) == offset + Len(FILE_HEADER)

\* a write that seeks to the view offset itself
GIFFS_write_seek_unshifted(offset) == offset

\* write: the cursor os.lseek(fh, offset + len(FILE_HEADER), 0) sets
GIFFS_write_seek(offset) == offset + Len(FILE_HEADER)

(***************************************************************************)
(* GIFFSReverse: the reverse personality                                   *)
(***************************************************************************)

\* getattr: os.lstat, then st_size + len(FILE_HEADER) if os.path.isfile(path)
GIFFSReverse_getattr(fs, p) ==
    LET st == Lstat(fs, p)
    IN  IF IsFile(fs, p)
        THEN [st EXCEPT !.st_size = st.st_size + Len(FILE_HEADER)]
        ELSE st

\* read: data = FILE_HEADER[offset:offset + size] when offset < len(FILE_HEADER)
GIFFSReverse_read_head(offset, size) ==
    IF offset < Len(FILE_HEADER)
    THEN Slice(FILE_HEADER, offset, offset + size)
    ELSE << >>

\* a reverse read that seeks as the forward read does
GIFFSReverse_read_seek_shifted(offset) == offset + Len(FILE_HEADER)

\* read: os.lseek(fh, 0, 0), or os.lseek(fh, offset - len(FILE_HEADER), 0)
GIFFSReverse_read_seek(offset) ==
    IF offset < Len(FILE_HEADER) THEN 0 ELSE offset - Len(FILE_HEADER)

\* read: os.read(fh, size - (len(FILE_HEADER) - offset)), or os.read(fh, size)
GIFFSReverse_read_size(offset, size) ==
    IF offset < Len(FILE_HEADER)
    THEN size - (Len(FILE_HEADER) - offset)
    ELSE size

(***************************************************************************)
(* Handlers the two personalities share word for word                      *)
(***************************************************************************)

\* open = os.open; the kernel opens directories with opendir, not with open
Open(p, flags) ==
    /\ Idle
    /\ FreeFds # {}
    /\ nodes[Resolve(nodes, p)].kind \in {"reg", "none"}
    /\ LET q == Resolve(nodes, p)
           h == LowestFree
       IN  IF nodes[q].kind = "none"
           THEN /\ ret' = [NoRet EXCEPT !.op = "open", !.err = "ENOENT", !.path = p]
                /\ UNCHANGED <<fdtab, seeker>>
           ELSE /\ fdtab' = [fdtab EXCEPT ![h] =
                       [open |-> TRUE, path |-> q, pos |-> 0, flags |-> flags]]
                /\ seeker' = [seeker EXCEPT ![h] = Free]
                /\ ret' = [NoRet EXCEPT !.op = "open", !.path = p, !.fh = h]
    /\ chain' = NoChain
    /\ UNCHANGED <<mode, nodes, rwlock, pc, call, failed>>

\* release: os.close(fh)
Release(fh) ==
    /\ Idle
    /\ fdtab[fh].open
    /\ fdtab' = [fdtab EXCEPT ![fh] = ClosedFd]
    /\ seeker' = [seeker EXCEPT ![fh] = Free]
    /\ ret' = [NoRet EXCEPT !.op = "release", !.fh = fh]
    /\ chain' = NoChain
    /\ UNCHANGED <<mode, nodes, rwlock, pc, call, failed>>

\* getattr of the mounted personality; os.lstat fails on a missing path
Getattr(p) ==
    /\ Idle
    /\ IF nodes[p].kind = "none"
       THEN ret' = [NoRet EXCEPT !.op = "getattr", !.err = "ENOENT", !.path = p]
       ELSE ret' = [NoRet EXCEPT !.op = "getattr", !.path = p,
                        !.st = IF mode = "forward"
                               THEN GIFFS_getattr(nodes, p)
                               ELSE GIFFSReverse_getattr(nodes, p)]
    /\ chain' = NoChain
    /\ UNCHANGED <<mode, nodes, fdtab, rwlock, pc, call, seeker, failed>>

(***************************************************************************)
(* read and write: "with self.rwlock: os.lseek(...); return os.read/write" *)
(***************************************************************************)

\* the cursor the call's os.lseek asks for
SeekTarget(c) ==
    IF c.op = "write" THEN GIFFS_write_seek(c.offset)
    ELSE IF mode = "forward" THEN GIFFS_read_seek(c.offset)
    ELSE GIFFSReverse_read_seek(c.offset)

\* the length the call's os.read asks for
ReadSize(c) ==
    IF mode = "forward" THEN c.size
    ELSE GIFFSReverse_read_size(c.offset, c.size)

\* an acquisition that never blocks
CanAcquireUnlocked(t) == TRUE

\* threading.Lock.acquire: blocks while another thread holds the lock
CanAcquire(t) == rwlock = Free

\* a release that an exception skips
LockAfterExitLeaky(t, err) == IF err # "" THEN t ELSE Free

\* the lock once the with block is left, by return or by exception
LockAfterExit(t, err) == Free

\* the dispatcher calls read(path, size, offset, fh) or write(path, data, offset, fh)
Begin(t, op, fh, offset, size, data) ==
    /\ pc[t] = "idle"
    /\ fdtab[fh].open
    /\ op = "write" => mode = "forward"
    /\ call' = [call EXCEPT ![t] =
           [NoCall EXCEPT !.op = op, !.fh = fh, !.offset = offset, !.size = size,
                          !.data = data,
                          !.head = IF op = "read" /\ mode = "reverse"
                                   THEN GIFFSReverse_read_head(offset, size)
                                   ELSE << >>]]
    /\ pc' = [pc EXCEPT ![t] = "lock"]
    /\ ret' = NoRet
    /\ chain' = IF chain.step = 1 \/ (chain.kind = "roundtrip" /\ chain.step = 2)
                THEN chain ELSE NoChain
    /\ UNCHANGED <<mode, nodes, fdtab, rwlock, seeker, failed>>

\* with self.rwlock: entry
Acquire(t) ==
    /\ pc[t] = "lock"
    /\ CanAcquire(t)
    /\ rwlock' = t
    /\ pc' = [pc EXCEPT ![t] = "seek"]
    /\ UNCHANGED <<mode, nodes, fdtab, call, ret, chain, seeker, failed>>

\* os.lseek(fh, target, 0); fault: the backing store fails the call
Seek(t, fault) ==
    /\ pc[t] = "seek"
    /\ LET c == call[t]
       IN  IF fault
           THEN /\ call' = [call EXCEPT ![t].err = "EIO"]
                /\ pc' = [pc EXCEPT ![t] = "exit"]
                /\ UNCHANGED <<fdtab, seeker>>
           ELSE /\ fdtab' = [fdtab EXCEPT ![c.fh].pos = SeekTarget(c)]
                /\ seeker' = [seeker EXCEPT ![c.fh] = t]
                /\ pc' = [pc EXCEPT ![t] = "xfer"]
                /\ UNCHANGED call
    /\ UNCHANGED <<mode, nodes, rwlock, ret, chain, failed>>

\* os.read(fh, size) or os.write(fh, data), at the descriptor's cursor
Transfer(t, fault) ==
    /\ pc[t] = "xfer"
    /\ LET c   == call[t]
           fd  == fdtab[c.fh]
           got == PRead(nodes[fd.path].data, fd.pos, ReadSize(c))
       IN  IF fault
           THEN /\ call' = [call EXCEPT ![t].err = "EIO"]
                /\ UNCHANGED <<nodes, fdtab>>
           ELSE IF c.op = "read" /\ ReadSize(c) < 0
           THEN /\ call' = [call EXCEPT ![t].err = "EINVAL"]
                /\ UNCHANGED <<nodes, fdtab>>
           ELSE IF c.op = "read"
           THEN /\ call' = [call EXCEPT ![t].out = got]
                /\ fdtab' = [fdtab EXCEPT ![c.fh].pos = @ + Len(got)]
                /\ UNCHANGED nodes
           ELSE IF fd.flags = "r"
           THEN /\ call' = [call EXCEPT ![t].err = "EBADF"]
                /\ UNCHANGED <<nodes, fdtab>>
           ELSE /\ nodes' = [nodes EXCEPT ![fd.path].data = PWrite(@, fd.pos, c.data)]
                /\ fdtab' = [fdtab EXCEPT ![c.fh].pos = @ + Len(c.data)]
                /\ call' = [call EXCEPT ![t].n = Len(c.data)]
    /\ pc' = [pc EXCEPT ![t] = "exit"]
    /\ UNCHANGED <<mode, rwlock, ret, chain, seeker, failed>>

\* the history after a read or write has returned
ChainAfter(c) ==
    IF c.err # "" THEN NoChain
    ELSE IF /\ chain.kind = "roundtrip" /\ chain.step = 1
            /\ c.op = "write" /\ c.fh = chain.fh /\ c.offset = 0
         THEN [chain EXCEPT !.step = 2, !.content = c.data]
    ELSE IF /\ chain.kind = "roundtrip" /\ chain.step = 2
            /\ c.op = "read" /\ c.fh = chain.fh /\ c.offset = 0
            /\ c.size = Len(chain.content)
         THEN [chain EXCEPT !.step = 3]
    ELSE IF /\ chain.kind = "truncate" /\ chain.step = 1
            /\ c.op = "read" /\ fdtab[c.fh].path = chain.path /\ c.offset = 0
            /\ c.size = Len(FILE_HEADER)
         THEN [chain EXCEPT !.step = 2]
    ELSE NoChain

\* with self.rwlock: exit; the call returns its result or raises its error
Exit(t) ==
    /\ pc[t] = "exit"
    /\ LET c == call[t]
       IN  /\ rwlock' = LockAfterExit(t, c.err)
           /\ ret' = [NoRet EXCEPT !.op = c.op, !.err = c.err, !.fh = c.fh,
                          !.path = fdtab[c.fh].path,
                          !.offset = c.offset, !.size = c.size,
                          !.data = IF c.err = "" /\ c.op = "read"
                                   THEN c.head \o c.out ELSE << >>,
                          !.n = c.n]
           /\ chain' = ChainAfter(c)
           /\ failed' = (failed \/ c.err # "")
    /\ call' = [call EXCEPT ![t] = NoCall]
    /\ pc' = [pc EXCEPT ![t] = "idle"]
    /\ UNCHANGED <<mode, nodes, fdtab, seeker>>

(***************************************************************************)
(* Spec: FUSE(..., nothreads=True)                                         *)
(***************************************************************************)

Contents == SeqsUpTo(Byte, MaxView)

\* forward: an empty backing directory; reverse: any backing tree
Init ==
    /\ mode \in {"forward", "reverse"}
    /\ nodes \in [Paths -> {NoNode, DirNode} \cup { RegNode(d) : d \in Contents }
                           \cup { LnkNode(x) : x \in LinkTexts }]
    /\ nodes["/"] = DirNode
    /\ \A p \in FilePaths : nodes[p].kind \in {"none", "reg"}
    /\ \A p \in LinkPaths : nodes[p].kind \in {"none", "lnk"}
    /\ mode = "forward" => \A p \in Paths \ {"/"} : nodes[p] = NoNode
    /\ fdtab = [h \in FDs |-> ClosedFd]
    /\ rwlock = Free
    /\ pc = [t \in Threads |-> "idle"]
    /\ call = [t \in Threads |-> NoCall]
    /\ ret = NoRet
    /\ chain = NoChain
    /\ seeker = [h \in FDs |-> Free]
    /\ failed = FALSE

\* reverse reads: around both ends of the header, and the whole view
ReverseOffsets == {0, 1, L - 1, L, L + 1, L + MaxView}
ReverseSizes == {1, 2, 3} \cup L..(L + MaxView + 1)

\* forward reads: at the start, inside and past the end of the content, for
\* every length up to one more than the content can hold, and for L bytes
ForwardOffsets == {0, 1, MaxView + 1}
ForwardSizes == 0..(MaxView + 1) \cup {L}

\* the requests the kernel sends to the forward mount; the kernel follows
\* symbolic links itself, so truncate and open arrive for the file's own path
ForwardRequest ==
    \/ \E p \in FilePaths : GIFFS_create(p)
    \/ \E p \in FilePaths : GIFFS_mknod(p)
    \/ \E p \in LinkPaths, x \in LinkTexts : GIFFS_symlink(p, x)
    \/ \E p \in FilePaths, n \in 0..MaxView : GIFFS_truncate(p, n)
    \/ \E h \in FDs, o \in ForwardOffsets, z \in ForwardSizes :
           mode = "forward" /\ Idle /\ Begin(MainThread, "read", h, o, z, << >>)
    \/ \E h \in FDs, o \in 0..MaxView, d \in Contents :
           Len(d) + o <= MaxView /\ Idle /\ Begin(MainThread, "write", h, o, 0, d)

\* the requests the kernel sends to the reverse mount
ReverseRequest ==
    \E h \in FDs, o \in ReverseOffsets, z \in ReverseSizes :
        mode = "reverse" /\ Idle /\ Begin(MainThread, "read", h, o, z, << >>)

Next ==
    \/ ForwardRequest
    \/ ReverseRequest
    \/ \E p \in FilePaths, fl \in {"r", "rw"} :
           (mode = "reverse" => fl = "r") /\ Open(p, fl)
    \/ \E h \in FDs : Release(h)
    \/ \E p \in Paths : Getattr(p)
    \/ Acquire(MainThread)
    \/ Seek(MainThread, FALSE)
    \/ Transfer(MainThread, FALSE)
    \/ Exit(MainThread)

Spec == Init /\ [][Next]_vars

(***************************************************************************)
(* ConcSpec: read and write dispatched concurrently on one mount instance  *)
(***************************************************************************)

ConcContents == { << >>, <<89, 89>> }
ConcOffsets == {0, 1}
ConcData == { <<88>> }

\* a mounted tree with one regular file and one handle open on it
ConcInit ==
    /\ mode \in {"forward", "reverse"}
    /\ \E d \in ConcContents :
           nodes = [p \in Paths |->
                       IF p = "/" THEN DirNode
                       ELSE IF p \in FilePaths
                       THEN RegNode(IF mode = "forward" THEN FILE_HEADER \o d ELSE d)
                       ELSE NoNode]
    /\ \E fl \in {"r", "rw"} :
           /\ mode = "reverse" => fl = "r"
           /\ fdtab = [h \in FDs |->
                          [open |-> TRUE, path |-> CHOOSE p \in FilePaths : TRUE,
                           pos |-> 0, flags |-> fl]]
    /\ rwlock = Free
    /\ pc = [t \in Threads |-> "idle"]
    /\ call = [t \in Threads |-> NoCall]
    /\ ret = NoRet
    /\ chain = NoChain
    /\ seeker = [h \in FDs |-> Free]
    /\ failed = FALSE

ConcRequest(t) ==
    \/ \E h \in FDs, o \in ConcOffsets :
           mode = "forward" /\ Begin(t, "read", h, o, 1, << >>)
    \/ \E h \in FDs, o \in ConcOffsets, d \in ConcData :
           Begin(t, "write", h, o, 0, d)
    \/ \E h \in FDs, o \in {0, L}, z \in {1, L + 1} :
           mode = "reverse" /\ Begin(t, "read", h, o, z, << >>)

ConcNext ==
    \E t \in Threads :
        \/ ConcRequest(t)
        \/ Acquire(t)
        \/ \E fault \in BOOLEAN : Seek(t, fault)
        \/ \E fault \in BOOLEAN : Transfer(t, fault)
        \/ Exit(t)

ConcSpec == ConcInit /\ [][ConcNext]_vars

\* A thread inside read or write keeps running; a thread blocked on the lock
\* gets it if it is free again and again.
FairConc ==
    /\ ConcInit /\ [][ConcNext]_vars
    /\ \A t \in Threads :
           /\ SF_vars(Acquire(t))
           /\ WF_vars(\E fault \in BOOLEAN : Seek(t, fault))
           /\ WF_vars(\E fault \in BOOLEAN : Transfer(t, fault))
           /\ WF_vars(Exit(t))

(***************************************************************************)
(* Properties                                                              *)
(***************************************************************************)

\* the regular file a response's path names
RetData == nodes[Resolve(nodes, ret.path)].data

\* C1: forward round trip.  After create(path), write(content) at view
\* offset 0 and read(len(content)) at view offset 0 on the handle create
\* returned, the read returns exactly content and the backing file is
\* FILE_HEADER ++ content.
ForwardRoundTrip ==
    (chain.kind = "roundtrip" /\ chain.step = 3) =>
        /\ ret.op = "read" /\ ret.err = ""
        /\ ret.data = chain.content
        /\ nodes[chain.path].data = FILE_HEADER \o chain.content

ForwardRoundTripReached ==
    /\ chain.kind = "roundtrip" /\ chain.step = 3
    /\ Len(chain.content) = MaxView
    /\ ret.op = "read" /\ ret.data = chain.content

\* C2: reverse round trip.  A read of L + len(content) bytes at view offset 0
\* returns exactly FILE_HEADER ++ content, and no step of the reverse mount
\* changes a backing file.
ReverseRoundTrip ==
    /\ [](( /\ mode = "reverse" /\ ret.op = "read" /\ ret.offset = 0
            /\ ret.size = L + Len(RetData) ) =>
              (ret.err = "" /\ ret.data = FILE_HEADER \o RetData))
    /\ [][mode = "reverse" => nodes' = nodes]_vars

ReverseRoundTripReached ==
    /\ mode = "reverse" /\ ret.op = "read" /\ ret.offset = 0
    /\ Len(RetData) = MaxView
    /\ ret.size = L + Len(RetData)
    /\ ret.data = FILE_HEADER \o RetData

\* C3: a reverse read of length >= 1 at any view offset returns the slice
\* (FILE_HEADER ++ content)[offset : offset + length], also when the request
\* lies wholly inside the header.
ReverseReadIsSlice ==
    (mode = "reverse" /\ ret.op = "read") =>
        /\ ret.err = ""
        /\ ret.data = Slice(FILE_HEADER \o RetData, ret.offset, ret.offset + ret.size)

\* C4: a call transfers only at the cursor its own os.lseek has set: between
\* a call's seek and its transfer no other call seeks the same descriptor.
SeekTransferAtomic ==
    \A t \in Threads :
        pc[t] = "xfer" =>
            /\ seeker[call[t].fh] = t
            /\ fdtab[call[t].fh].pos = SeekTarget(call[t])

SeekTransferContended ==
    \E t, u \in Threads :
        /\ t # u
        /\ pc[t] = "xfer" /\ pc[u] = "lock"
        /\ call[t].fh = call[u].fh
        /\ seeker[call[t].fh] = t

\* C5: forward truncate(view_length) on a file made through the forward
\* mount leaves a backing file of exactly view_length + L bytes that starts
\* with FILE_HEADER; after truncate(0) a read of L bytes at view offset 0
\* returns no bytes.
TruncatePreservesSignature ==
    /\ (mode = "forward" /\ ret.op = "truncate" /\ ret.err = "") =>
           /\ Len(RetData) = ret.size + L
           /\ IsPrefix(FILE_HEADER, RetData)
    /\ (chain.kind = "truncate" /\ chain.step = 2) =>
           /\ ret.data = << >>
           /\ Len(nodes[chain.path].data) = L

\* C6: every regular file the forward mount brings into existence (create,
\* mknod) holds exactly FILE_HEADER when that call returns, and every regular
\* file of the forward mount starts with FILE_HEADER in every later state.
SignaturePrefixedFromBirth ==
    /\ (mode = "forward" /\ ret.op \in {"create", "mknod"} /\ ret.err = "") =>
           RetData = FILE_HEADER
    /\ mode = "forward" =>
           \A p \in Paths : nodes[p].kind = "reg" => IsPrefix(FILE_HEADER, nodes[p].data)

\* C7: getattr of a regular file of backing size S reports S - L in forward
\* mode (S >= L) and S + L in reverse mode; the other attributes are those of
\* os.lstat.
GetattrSizeAdjusted ==
    (ret.op = "getattr" /\ ret.err = "" /\ nodes[ret.path].kind = "reg") =>
        LET S == Len(nodes[ret.path].data)
        IN  /\ (mode = "forward" /\ S >= L) => ret.st.st_size = S - L
            /\ mode = "reverse" => ret.st.st_size = S + L
            /\ ret.st.st_mode = "reg"
            /\ ret.st.st_nlink = 1

GetattrSizeAdjustedReached ==
    /\ ret.op = "getattr" /\ ret.err = "" /\ nodes[ret.path].kind = "reg"
    /\ mode = "forward"
    /\ Len(nodes[ret.path].data) = L + MaxView
    /\ ret.st.st_size = MaxView

\* C8: getattr of a path whose own node is not a regular file (a directory,
\* a symbolic link whatever it points to) reports the size os.lstat gives.
NonRegularPassThrough ==
    (ret.op = "getattr" /\ ret.err = "" /\ nodes[ret.path].kind # "reg") =>
        ret.st.st_size = nodes[ret.path].lsize

\* C10: the lock is held only by a thread inside its seek and transfer, and
\* once a read or write has failed, a call waiting for the lock gets it.
LockReleasedOnEveryExit ==
    /\ [](\A t \in Threads : rwlock = t => pc[t] \in {"seek", "xfer", "exit"})
    /\ \A t \in Threads : (failed /\ pc[t] = "lock") ~> (rwlock = t)

LockTakenAfterFailure ==
    \E t \in Threads : failed /\ rwlock = t /\ pc[t] = "xfer"

====
